---- MODULE Spec2Model ----
(***************************************************************************)
(* Model of the crypto-trend-dashboard analytics: the Movers tab of        *)
(* src/app.py (snapshot-to-snapshot percentage change, top gainers and     *)
(* losers, trend alerts) and the indicator functions of src/utils.py       *)
(* (add_rolling, compute_rsi, compute_macd).                               *)
(*                                                                         *)
(* Floating-point numbers are modelled as exact rationals extended with    *)
(* the IEEE-754 special values the code can produce: +inf, -inf, NaN and   *)
(* the negative zero.  Rounding is not modelled.                           *)
(***************************************************************************)
EXTENDS Integers, Sequences, FiniteSets, TLC

VARIABLES
    df,           \* app.py: the frame load_data() returns (rows in file order)
    threshold,    \* app.py: the "Alert Threshold (%)" slider, a float
    merged,       \* app.py tab3: merged, with its pct_change column
    top_gainers,  \* app.py tab3
    top_losers,   \* app.py tab3
    alerts,       \* app.py tab3
    outcome,      \* app.py tab3: which message/branch the script run ended in
    heap,         \* utils.py: the DataFrame objects alive during/after a call
    call,         \* utils.py: the last indicator call made on the input frame
    ret           \* utils.py: the object the last call returned (0: none yet)

vars == <<df, threshold, merged, top_gainers, top_losers, alerts, outcome,
          heap, call, ret>>

moversVars == <<df, threshold, merged, top_gainers, top_losers, alerts, outcome>>
indicatorVars == <<heap, call, ret>>

-----------------------------------------------------------------------------
(* Floats.  A value is [n, d]: d > 0 is the rational n/d in lowest terms;   *)
(* [0, 1] is +0.0 and [0, -1] is -0.0; [1, 0] is +inf, [-1, 0] is -inf and  *)
(* [0, 0] is NaN.                                                           *)

AbsInt(i) == IF i < 0 THEN -i ELSE i

RECURSIVE Gcd(_, _)
Gcd(a, b) == IF b = 0 THEN a ELSE Gcd(b, a % b)

NaN == [n |-> 0, d |-> 0]
PosInf == [n |-> 1, d |-> 0]
NegInf == [n |-> -1, d |-> 0]
PosZero == [n |-> 0, d |-> 1]
NegZero == [n |-> 0, d |-> -1]

IsNaN(x) == x.n = 0 /\ x.d = 0
IsInf(x) == x.n # 0 /\ x.d = 0
IsZero(x) == x.n = 0 /\ x.d # 0
IsFinite(x) == x.d # 0

\* The sign bit: -1 or 1 (NaN's sign is never read).
Sign(x) == IF x.n < 0 \/ (x.n = 0 /\ x.d < 0) THEN -1 ELSE 1

\* The float of the fraction num/den, den > 0; a zero takes the sign zsign.
Rat(num, den, zsign) ==
    IF num = 0 THEN (IF zsign < 0 THEN NegZero ELSE PosZero)
    ELSE LET g == Gcd(AbsInt(num), den) IN [n |-> num \div g, d |-> den \div g]

FromInt(i) == Rat(i, 1, 1)

\* Numerator and denominator of a finite value, zeros included.
Num(x) == x.n
Den(x) == AbsInt(x.d)

Neg(x) ==
    IF IsNaN(x) THEN NaN
    ELSE IF IsZero(x) THEN [n |-> 0, d |-> -x.d]
    ELSE [n |-> -x.n, d |-> x.d]

Add(x, y) ==
    IF IsNaN(x) \/ IsNaN(y) THEN NaN
    ELSE IF IsInf(x) /\ IsInf(y) THEN (IF x.n = y.n THEN x ELSE NaN)
    ELSE IF IsInf(x) THEN x
    ELSE IF IsInf(y) THEN y
    ELSE \* an exact zero sum is +0.0 unless both operands are -0.0
         LET g == Gcd(Den(x), Den(y))
         IN Rat(Num(x) * (Den(y) \div g) + Num(y) * (Den(x) \div g),
                Den(x) * (Den(y) \div g),
                IF Sign(x) < 0 /\ Sign(y) < 0 THEN -1 ELSE 1)

Sub(x, y) == Add(x, Neg(y))

Mul(x, y) ==
    IF IsNaN(x) \/ IsNaN(y) THEN NaN
    ELSE IF (IsInf(x) /\ IsZero(y)) \/ (IsZero(x) /\ IsInf(y)) THEN NaN
    ELSE IF IsInf(x) \/ IsInf(y) THEN [n |-> Sign(x) * Sign(y), d |-> 0]
    ELSE IF IsZero(x) \/ IsZero(y) THEN Rat(0, 1, Sign(x) * Sign(y))
    ELSE LET g1 == Gcd(AbsInt(Num(x)), Den(y))
             g2 == Gcd(AbsInt(Num(y)), Den(x))
         IN Rat((Num(x) \div g1) * (Num(y) \div g2),
                (Den(x) \div g2) * (Den(y) \div g1), 1)

Div(x, y) ==
    IF IsNaN(x) \/ IsNaN(y) THEN NaN
    ELSE IF (IsInf(x) /\ IsInf(y)) \/ (IsZero(x) /\ IsZero(y)) THEN NaN
    ELSE IF IsInf(x) \/ IsZero(y) THEN [n |-> Sign(x) * Sign(y), d |-> 0]
    ELSE IF IsInf(y) THEN Rat(0, 1, Sign(x) * Sign(y))
    ELSE IF IsZero(x) THEN Rat(0, 1, Sign(x) * Sign(y))
    ELSE LET g1 == Gcd(AbsInt(Num(x)), AbsInt(Num(y)))
             g2 == Gcd(Den(x), Den(y))
         IN Rat(Sign(y) * (Num(x) \div g1) * (Den(y) \div g2),
                (Den(x) \div g2) * (AbsInt(Num(y)) \div g1), 1)

Abs(x) ==
    IF IsNaN(x) THEN NaN
    ELSE IF IsZero(x) THEN PosZero
    ELSE [n |-> AbsInt(x.n), d |-> x.d]

\* x < y on floats: false when either is NaN; -0.0 and +0.0 are equal.
Lt(x, y) ==
    /\ ~IsNaN(x) /\ ~IsNaN(y)
    /\ IF IsInf(x) THEN x.n < 0 /\ y # NegInf
       ELSE IF IsInf(y) THEN y.n > 0
       ELSE Num(x) * Den(y) < Num(y) * Den(x)

Gt(x, y) == Lt(y, x)

\* x == y on floats.
Eq(x, y) == ~IsNaN(x) /\ ~IsNaN(y) /\ ~Lt(x, y) /\ ~Lt(y, x)

Hundred == FromInt(100)
One == FromInt(1)

-----------------------------------------------------------------------------
(* Sequence helpers standing for the pandas row operations.                 *)

Range(s) == {s[i] : i \in DOMAIN s}

RECURSIVE Concat(_)
Concat(ss) == IF ss = <<>> THEN <<>> ELSE Head(ss) \o Concat(Tail(ss))

\* The first k elements (DataFrame.head).
Take(s, k) == SubSeq(s, 1, IF k < Len(s) THEN k ELSE Len(s))

\* Series.unique(): the distinct values in order of first appearance.
RECURSIVE Unique(_)
Unique(s) ==
    IF s = <<>> THEN <<>>
    ELSE LET r == Unique(SubSeq(s, 1, Len(s) - 1))
             x == s[Len(s)]
         IN IF x \in Range(r) THEN r ELSE Append(r, x)

\* Series.max() of a non-empty integer column.
MaxOf(s) == CHOOSE m \in Range(s) : \A x \in Range(s) : x <= m

-----------------------------------------------------------------------------
(* The snapshot files and load_data (app.py).                               *)

\* Index of the top-5 cut of nlargest(5, ...) / nsmallest(5, ...).
TopK == 5
\* "last 10 minutes": pd.Timedelta(minutes=10).
WindowMinutes == 10
\* st.slider("Alert Threshold (%)", 0.1, 10.0, 5.0), in hundredths of a percent.
SliderMin == 10
SliderMax == 1000
SliderDefault == 500

\* Bounds of the model.
MaxTick == 2        \* snapshot timestamps are 0, TickMinutes, .., MaxTick * TickMinutes
TickMinutes == 6    \* minutes between two possible snapshot instants

Names == <<"A", "B", "C", "D", "E", "F">>
SparseNames == {1, 2}
Prices == {0, 10, 11}
Times == {k * TickMinutes : k \in 0..MaxTick}
SliderValues == {SliderMin, SliderDefault, SliderMax}

\* The rows of one snapshot CSV whose assets are the indices in S, in index order.
RECURSIVE FileRows(_, _, _)
FileRows(S, price, i) ==
    IF i > Len(Names) THEN <<>>
    ELSE (IF i \in S THEN <<[name |-> Names[i], price |-> price[i]]>> ELSE <<>>)
         \o FileRows(S, price, i + 1)

\* Contents of a snapshot file: one or two assets, or all assets (more than
\* TopK of them) with the assets i and i + 3 at the same price.
FileContents ==
    {FileRows(S, p, 1) : S \in (SUBSET SparseNames) \ {{}}, p \in [SparseNames -> Prices]}
    \cup {FileRows(1..Len(Names), [i \in 1..Len(Names) |-> q[(i % 3) + 1]], 1) :
             q \in [1..3 -> Prices]}

SnapshotFiles == [timestamp : Times, rows : FileContents]

\* pd.read_csv(file): every row of a snapshot file carries the file's timestamp.
ReadCsv(file) ==
    [i \in 1..Len(file.rows) |->
        [timestamp |-> file.timestamp, name |-> file.rows[i].name,
         price |-> file.rows[i].price]]

\* load_data(): the files in file-name order, concatenated.
LoadData(files) == Concat([i \in 1..Len(files) |-> ReadCsv(files[i])])

-----------------------------------------------------------------------------
(* Tab 3: top gainers / losers and trend alerts (app.py).                   *)

TimestampCol(d) == [i \in 1..Len(d) |-> d[i].timestamp]

\* latest_timestamp = df['timestamp'].max()
LatestTimestamp(d) == MaxOf(TimestampCol(d))

\* window_df = df[df['timestamp'] >= latest_timestamp - pd.Timedelta(minutes=10)]
WindowDf(d) ==
    LET latest_timestamp == LatestTimestamp(d)
    IN SelectSeq(d, LAMBDA r : r.timestamp >= latest_timestamp - WindowMinutes)

\* len(window_df['timestamp'].unique()) >= 2
EnoughSnapshots(d) == Len(Unique(TimestampCol(WindowDf(d)))) >= 2

\* frame[frame['timestamp'] == t]
RowsAt(w, t) == SelectSeq(w, LAMBDA r : r.timestamp = t)

\* last_snap = window_df[window_df['timestamp'] == window_df['timestamp'].max()]
LastSnap(w) == RowsAt(w, MaxOf(TimestampCol(w)))

\* prev_snap = window_df[window_df['timestamp'] == window_df['timestamp'].unique()[-2]]
PrevSnap(w) == RowsAt(w, Unique(TimestampCol(w))[Len(Unique(TimestampCol(w))) - 1])

\* The same with how='left': a left row without a match is kept, its right
\* columns missing.
RECURSIVE MergeLeft(_, _)
MergeLeft(left, right) ==
    IF left = <<>> THEN <<>>
    ELSE LET x == Head(left)
             m == SelectSeq(right, LAMBDA r : r.name = x.name)
         IN (IF m = <<>>
             THEN <<[name |-> x.name, price_new |-> FromInt(x.price), price_old |-> NaN]>>
             ELSE [i \in 1..Len(m) |->
                     [name |-> x.name, price_new |-> FromInt(x.price),
                      price_old |-> FromInt(m[i].price)]])
            \o MergeLeft(Tail(left), right)

\* pd.merge(left, right, on='name', suffixes=('_new', '_old')): inner join, in
\* the order of the left rows, one row per matching pair.
RECURSIVE Merge(_, _)
Merge(left, right) ==
    IF left = <<>> THEN <<>>
    ELSE LET x == Head(left)
             m == SelectSeq(right, LAMBDA r : r.name = x.name)
         IN [i \in 1..Len(m) |->
                [name |-> x.name, price_new |-> FromInt(x.price),
                 price_old |-> FromInt(m[i].price)]]
            \o Merge(Tail(left), right)

\* ((price_new - price_old) / price_old) * 100
PctChange(new, old) == Mul(Div(Sub(new, old), old), Hundred)

\* merged, with its pct_change column, from the frame's last-10-minutes window.
Merged(w) ==
    LET m == Merge(LastSnap(w), PrevSnap(w))
    IN [i \in 1..Len(m) |->
           [name |-> m[i].name, price_new |-> m[i].price_new,
            price_old |-> m[i].price_old,
            pct_change |-> PctChange(m[i].price_new, m[i].price_old)]]

\* Sort order of a float column: NaN sorts last in either direction.
KeyBefore(a, b, descending) ==
    IF IsNaN(a) THEN FALSE
    ELSE IF IsNaN(b) THEN TRUE
    ELSE IF descending THEN Gt(a, b) ELSE Lt(a, b)

\* x put into the sorted rows s, after the rows it ties with.
RECURSIVE Insert(_, _, _)
Insert(s, x, descending) ==
    IF s = <<>> THEN <<x>>
    ELSE IF KeyBefore(x.pct_change, Head(s).pct_change, descending)
         THEN <<x>> \o s
         ELSE <<Head(s)>> \o Insert(Tail(s), x, descending)

RECURSIVE SortRows(_, _)
SortRows(rows, descending) ==
    IF rows = <<>> THEN <<>>
    ELSE Insert(SortRows(SubSeq(rows, 1, Len(rows) - 1), descending),
                rows[Len(rows)], descending)

\* DataFrame.sort_values('pct_change')
SortValues(rows) == SortRows(rows, FALSE)

\* DataFrame.nlargest(n, 'pct_change'): the first n rows in descending order,
\* ties in row order, NaN rows only when fewer than n rows have a value.
NLargest(rows, n) == Take(SortRows(rows, TRUE), n)

\* DataFrame.nsmallest(n, 'pct_change')
NSmallest(rows, n) == Take(SortRows(rows, FALSE), n)

\* top_gainers = merged.nlargest(5, 'pct_change').sort_values('pct_change')
TopGainers(m) == SortValues(NLargest(m, TopK))

\* top_losers = merged.nsmallest(5, 'pct_change').sort_values('pct_change')
TopLosers(m) == SortValues(NSmallest(m, TopK))

\* The slider value as a float.
SliderFloat(t) == Rat(t, 100, 1)

\* alerts = merged[merged['pct_change'].abs() > threshold]
Alerts(m, thr) == SelectSeq(m, LAMBDA r : Gt(Abs(r.pct_change), thr))

\* st.warning("Coins with significant movement:") or
\* st.success("No coins exceeded the threshold.")
AlertMessage(a) == IF a # <<>> THEN "warning" ELSE "no_alerts"

\* One run of the tab-3 block of the script with the slider at thr.
ShowTab3(thr) ==
    IF EnoughSnapshots(df)
    THEN \E m \in {Merged(WindowDf(df))} :
           /\ merged' = m
           /\ top_gainers' = TopGainers(m)
           /\ top_losers' = TopLosers(m)
           /\ \E a \in {Alerts(m, thr)} :
                 /\ alerts' = a
                 /\ outcome' = AlertMessage(a)
    ELSE /\ merged' = <<>>
         /\ top_gainers' = <<>>
         /\ top_losers' = <<>>
         /\ alerts' = <<>>
         /\ outcome' = "not_enough"

\* The first run of the script: the slider is at its default.
RunScript ==
    /\ outcome = "none"
    /\ threshold' = threshold
    /\ ShowTab3(threshold)
    /\ UNCHANGED <<df, indicatorVars>>

\* The user moves the slider (it is drawn only in the branch with two
\* snapshots); Streamlit reruns the script with the new value.
MoveSlider(t) ==
    /\ outcome \in {"warning", "no_alerts"}
    /\ SliderFloat(t) # threshold
    /\ threshold' = SliderFloat(t)
    /\ ShowTab3(SliderFloat(t))
    /\ UNCHANGED <<df, indicatorVars>>

InitMovers ==
    /\ \E f1 \in SnapshotFiles, f2 \in SnapshotFiles : df = LoadData(<<f1, f2>>)
    /\ threshold = SliderFloat(SliderDefault)
    /\ merged = <<>>
    /\ top_gainers = <<>>
    /\ top_losers = <<>>
    /\ alerts = <<>>
    /\ outcome = "none"

IdleIndicators ==
    /\ heap = <<>>
    /\ call = <<>>
    /\ ret = 0

Init == InitMovers /\ IdleIndicators

Next ==
    \/ RunScript
    \/ \E t \in SliderValues : MoveSlider(t)

Spec == Init /\ [][Next]_vars

-----------------------------------------------------------------------------
(* DataFrames of the indicator functions (utils.py) and of tab 1 (app.py).  *)
(* A frame is its column names and its rows; heap is the sequence of the    *)
(* frame objects alive, a reference is an index into it.                    *)

\* Bounds of the model.
MaxLen == 5        \* rows of the input series
MaxWindow == 2     \* window arguments 1..MaxWindow, besides the defaults

\* add_rolling(df, col, window=5)
DefaultRollingWindow == 5
\* compute_rsi(df, col, window=14)
DefaultRsiWindow == 14
\* coin_df[selected_metric].rolling(window=5)
Tab1Window == 5

SeriesPrices == {1, 2}
Windows == 1..MaxWindow
\* (fast, slow, signal) spans the model calls compute_macd with.
MacdSpans == {<<1, 2, 1>>, <<2, 3, 3>>, <<3, 1, 2>>}

\* Row orders of the input: by timestamp, or newest first.
RowOrders(n) == {[i \in 1..n |-> i], [i \in 1..n |-> n + 1 - i]}

\* The input series: distinct timestamps in some row order, a price per row.
InputFrames ==
    UNION {{[columns |-> <<"timestamp", "price">>,
             rows |-> [i \in 1..n |-> [timestamp |-> o[i], price |-> FromInt(p[i])]]] :
               o \in RowOrders(n), p \in [1..n -> SeriesPrices]} : n \in 1..MaxLen}

\* frame[col]
Column(f, col) == [i \in 1..Len(f.rows) |-> f.rows[i][col]]

\* frame[col] = vals, on the frame itself.
WithColumn(f, col, vals) ==
    [columns |-> IF col \in Range(f.columns) THEN f.columns ELSE Append(f.columns, col),
     rows |-> [i \in 1..Len(f.rows) |->
                 [k \in DOMAIN f.rows[i] \cup {col} |->
                     IF k = col THEN vals[i] ELSE f.rows[i][k]]]]

RECURSIVE InsertByTimestamp(_, _)
InsertByTimestamp(s, x) ==
    IF s = <<>> THEN <<x>>
    ELSE IF x.timestamp < Head(s).timestamp THEN <<x>> \o s
    ELSE <<Head(s)>> \o InsertByTimestamp(Tail(s), x)

RECURSIVE SortByTimestamp(_)
SortByTimestamp(rows) ==
    IF rows = <<>> THEN <<>>
    ELSE InsertByTimestamp(SortByTimestamp(SubSeq(rows, 1, Len(rows) - 1)),
                           rows[Len(rows)])

SortedFrame(f) == [columns |-> f.columns, rows |-> SortByTimestamp(f.rows)]

\* No copy: the same object under another name.
CopyAlias(h, r) == [heap |-> h, ref |-> r]

\* df.copy(): a new object with the same contents.
Copy(h, r) == [heap |-> Append(h, h[r]), ref |-> Len(h) + 1]

\* df.sort_values("timestamp"): a new, sorted object.
SortValuesNew(h, r) == [heap |-> Append(h, SortedFrame(h[r])), ref |-> Len(h) + 1]

\* df.sort_values('timestamp', inplace=True)
SortValuesInPlace(h, r) == [h EXCEPT ![r] = SortedFrame(h[r])]

\* df[col] = vals: the object r refers to gets the column.
SetColumn(h, r, col, vals) == [h EXCEPT ![r] = WithColumn(h[r], col, vals)]

-----------------------------------------------------------------------------
(* The pandas series operations the indicators use.                         *)

\* Series.rolling(window, min_periods).mean(): a running sum and count of the
\* values in the trailing window; the mean once min_periods values are in it.
RECURSIVE Roll(_, _, _, _)
Roll(vals, window, minp, i) ==
    IF i = 0 THEN [sum |-> PosZero, nobs |-> 0, out |-> <<>>]
    ELSE LET prev == Roll(vals, window, minp, i - 1)
             added == IF IsNaN(vals[i]) THEN prev
                      ELSE [prev EXCEPT !.sum = Add(prev.sum, vals[i]),
                                        !.nobs = prev.nobs + 1]
             kept == IF i > window /\ ~IsNaN(vals[i - window])
                     THEN [added EXCEPT !.sum = Sub(added.sum, vals[i - window]),
                                        !.nobs = added.nobs - 1]
                     ELSE added
         IN [kept EXCEPT !.out =
                Append(kept.out,
                       IF kept.nobs >= minp /\ kept.nobs > 0
                       THEN Div(kept.sum, FromInt(kept.nobs)) ELSE NaN)]

\* rolling(window).mean() with min_periods=1 instead of the default.
RollingMeanMinPeriods1(vals, window) == Roll(vals, window, 1, Len(vals)).out

\* Series.rolling(window).mean(): min_periods defaults to the window.
RollingMean(vals, window) == Roll(vals, window, window, Len(vals)).out

\* Series.diff()
Diff(vals) ==
    [i \in 1..Len(vals) |-> IF i = 1 THEN NaN ELSE Sub(vals[i], vals[i - 1])]

\* Series.clip(lower=0)
ClipLower0(vals) ==
    [i \in 1..Len(vals) |-> IF Lt(vals[i], PosZero) THEN PosZero ELSE vals[i]]

\* Series.clip(upper=0)
ClipUpper0(vals) ==
    [i \in 1..Len(vals) |-> IF Gt(vals[i], PosZero) THEN PosZero ELSE vals[i]]

\* -series
NegSeries(vals) == [i \in 1..Len(vals) |-> Neg(vals[i])]

\* Series.ewm(alpha=alpha, adjust=False).mean(): the running weighted mean;
\* NaN until the first value, which seeds it.
RECURSIVE EwmState(_, _, _)
EwmState(vals, alpha, i) ==
    IF i = 1 THEN [weighted |-> vals[1], old_wt |-> One, out |-> <<vals[1]>>]
    ELSE LET prev == EwmState(vals, alpha, i - 1)
             cur == vals[i]
             old_wt == Mul(prev.old_wt, Sub(One, alpha))
             next ==
                 IF ~IsNaN(prev.weighted)
                 THEN IF ~IsNaN(cur)
                      THEN [weighted |->
                                IF ~Eq(prev.weighted, cur)
                                THEN Div(Add(Mul(old_wt, prev.weighted), Mul(alpha, cur)),
                                         Add(old_wt, alpha))
                                ELSE prev.weighted,
                            old_wt |-> One]
                      ELSE [weighted |-> prev.weighted, old_wt |-> old_wt]
                 ELSE [weighted |-> cur, old_wt |-> prev.old_wt]
         IN [weighted |-> next.weighted, old_wt |-> next.old_wt,
             out |-> Append(prev.out, next.weighted)]

Ewm(vals, alpha) == IF vals = <<>> THEN <<>> ELSE EwmState(vals, alpha, Len(vals)).out

\* ewm(span=span) taken as alpha = 1/span.
SpanAlphaReciprocal(span) == Div(One, FromInt(span))

\* ewm(span=span): alpha = 2 / (span + 1).
SpanAlpha(span) == Div(FromInt(2), FromInt(span + 1))

\* ewm(alpha=1/window)
WindowAlpha(window) == Div(One, FromInt(window))

\* a - b, a / b, k + a, k / a, k - a on series.
SubSeries(a, b) == [i \in 1..Len(a) |-> Sub(a[i], b[i])]
DivSeries(a, b) == [i \in 1..Len(a) |-> Div(a[i], b[i])]

-----------------------------------------------------------------------------
(* utils.py and tab 1 of app.py.  Each function takes the heap and the      *)
(* reference it was called with, and returns the heap it leaves and the     *)
(* reference it returns.                                                    *)

\* f"{col}_rolling_{window}"
RollingColumn(window) ==
    <<"price_rolling_1", "price_rolling_2", "price_rolling_3", "price_rolling_4",
      "price_rolling_5", "price_rolling_6">>[window]

add_rolling(h, arg, window) ==
    LET sorted == SortValuesNew(h, arg)            \* df = df.sort_values("timestamp")
        out == Copy(sorted.heap, sorted.ref)       \* out = df.copy()
    IN [heap |-> SetColumn(out.heap, out.ref, RollingColumn(window),
                           RollingMean(Column(out.heap[out.ref], "price"), window)),
        ref |-> out.ref]

\* The columns compute_rsi derives from the price column.
RsiAvgGain(price, window) == Ewm(ClipLower0(Diff(price)), WindowAlpha(window))
RsiAvgLoss(price, window) == Ewm(NegSeries(ClipUpper0(Diff(price))), WindowAlpha(window))
Rsi(price, window) ==
    LET rs == DivSeries(RsiAvgGain(price, window), RsiAvgLoss(price, window))
    IN [i \in 1..Len(price) |-> Sub(Hundred, Div(Hundred, Add(One, rs[i])))]

compute_rsi(h, arg, window) ==
    LET c == Copy(h, arg)                           \* df = df.copy()
    IN [heap |-> SetColumn(c.heap, c.ref, "rsi", Rsi(Column(c.heap[c.ref], "price"), window)),
        ref |-> c.ref]

Macd(price, fast, slow) ==
    SubSeries(Ewm(price, SpanAlpha(fast)), Ewm(price, SpanAlpha(slow)))
MacdSignal(macd, signal) == Ewm(macd, SpanAlpha(signal))

compute_macd(h, arg, fast, slow, signal) ==
    LET c == Copy(h, arg)                           \* df = df.copy()
        h1 == SetColumn(c.heap, c.ref, "macd",
                        Macd(Column(c.heap[c.ref], "price"), fast, slow))
        h2 == SetColumn(h1, c.ref, "macd_signal",
                        MacdSignal(Column(h1[c.ref], "macd"), signal))
        h3 == SetColumn(h2, c.ref, "macd_hist",
                        SubSeries(Column(h2[c.ref], "macd"), Column(h2[c.ref], "macd_signal")))
    IN [heap |-> h3, ref |-> c.ref]

\* Tab 1: coin_df = df[df['name'] == selected_coin].copy(), sorted in place,
\* with its rolling_mean column (the rows of the selected coin are the input
\* series; the volatility column, a square root, is left out).
tab1_coin_df(h, arg) ==
    LET c == Copy(h, arg)
        h1 == SortValuesInPlace(c.heap, c.ref)
    IN [heap |-> SetColumn(h1, c.ref, "rolling_mean",
                           RollingMean(Column(h1[c.ref], "price"), Tab1Window)),
        ref |-> c.ref]

\* The caller's frame is object 1.  After a call the caller holds its frame and
\* the returned one; the function's other objects are garbage.
Return(r, fn, args) ==
    /\ heap' = IF r.ref = 1 THEN <<r.heap[1]>> ELSE <<r.heap[1], r.heap[r.ref]>>
    /\ ret' = IF r.ref = 1 THEN 1 ELSE 2
    /\ call' = [fn |-> fn, args |-> args,
                again |-> call # <<>> /\ call.fn = fn /\ call.args = args]
    /\ UNCHANGED moversVars

CallAddRolling(window) ==
    \E r \in {add_rolling(<<heap[1]>>, 1, window)} : Return(r, "add_rolling", <<window>>)

CallComputeRsi(window) ==
    \E r \in {compute_rsi(<<heap[1]>>, 1, window)} : Return(r, "compute_rsi", <<window>>)

CallComputeMacd(fast, slow, signal) ==
    \E r \in {compute_macd(<<heap[1]>>, 1, fast, slow, signal)} :
        Return(r, "compute_macd", <<fast, slow, signal>>)

ShowTab1 ==
    \E r \in {tab1_coin_df(<<heap[1]>>, 1)} : Return(r, "tab1", <<Tab1Window>>)

IdleMovers ==
    /\ df = <<>>
    /\ threshold = SliderFloat(SliderDefault)
    /\ merged = <<>>
    /\ top_gainers = <<>>
    /\ top_losers = <<>>
    /\ alerts = <<>>
    /\ outcome = "none"

InitIndicators ==
    /\ \E f \in InputFrames : heap = <<f>>
    /\ call = <<>>
    /\ ret = 0

InitInd == InitIndicators /\ IdleMovers

NextInd ==
    \/ \E w \in Windows \cup {DefaultRollingWindow} : CallAddRolling(w)
    \/ \E w \in Windows \cup {DefaultRsiWindow} : CallComputeRsi(w)
    \/ \E s \in MacdSpans : CallComputeMacd(s[1], s[2], s[3])
    \/ ShowTab1

SpecInd == InitInd /\ [][NextInd]_vars

-----------------------------------------------------------------------------
(* Claims about the Movers tab, checked under Spec.                         *)

NamesOf(rows) == {rows[i].name : i \in DOMAIN rows}

\* The movers computation ran (the branch with two snapshots was taken).
MoversRan == outcome \in {"warning", "no_alerts", "error"}

\* The two cross-sections the script compares.
LastSnapshot == LastSnap(WindowDf(df))
PrevSnapshot == PrevSnap(WindowDf(df))

\* The movers computation ran on a previous snapshot taken before the latest.
MoversRanOnPair ==
    /\ MoversRan
    /\ PrevSnapshot[1].timestamp < LastSnapshot[1].timestamp

\* The joined rows whose change is defined: the previous price is not 0.
DefinedRows == SelectSeq(merged, LAMBDA r : ~IsZero(r.price_old))

\* C1 (as claimed): the alert set is exactly the joined assets with a defined
\* pct_change whose absolute value is strictly greater than the threshold.
C1_AlertsExactlyDefinedAboveThreshold ==
    MoversRanOnPair =>
        NamesOf(alerts) =
            NamesOf(SelectSeq(DefinedRows, LAMBDA r : Gt(Abs(r.pct_change), threshold)))

\* C2 (as claimed): an asset whose previous price is 0 is in no ranking and in
\* no alert, and its pct_change is never infinity or NaN.
C2_ZeroPreviousPriceExcluded ==
    MoversRanOnPair =>
        \A i \in DOMAIN merged :
            IsZero(merged[i].price_old) =>
                /\ merged[i].name \notin
                       NamesOf(top_gainers) \cup NamesOf(top_losers) \cup NamesOf(alerts)
                /\ ~IsInf(merged[i].pct_change)
                /\ ~IsNaN(merged[i].pct_change)

\* C3: the assets compared are exactly those named in both snapshots, one record
\* each, carrying the two snapshots' prices; an asset of only one snapshot is in
\* no record, ranking or alert, and the run ends in a normal outcome.
C3_InnerJoinOnName ==
    outcome # "none" /\ EnoughSnapshots(df) =>
        /\ outcome \in {"warning", "no_alerts"}
        /\ NamesOf(merged) = NamesOf(LastSnapshot) \cap NamesOf(PrevSnapshot)
        /\ \A i \in DOMAIN merged :
              /\ \E x \in Range(LastSnapshot) :
                    x.name = merged[i].name /\ FromInt(x.price) = merged[i].price_new
              /\ \E y \in Range(PrevSnapshot) :
                    y.name = merged[i].name /\ FromInt(y.price) = merged[i].price_old
        /\ \A i, j \in DOMAIN merged : merged[i].name = merged[j].name => i = j
        /\ NamesOf(top_gainers) \cup NamesOf(top_losers) \cup NamesOf(alerts)
              \subseteq NamesOf(LastSnapshot) \cap NamesOf(PrevSnapshot)

\* C3 witness: an asset of the latest snapshot is missing from the previous
\* one, another asset is in both, and the run compared only the latter.
C3_Witness ==
    /\ MoversRan
    /\ NamesOf(LastSnapshot) \ NamesOf(PrevSnapshot) # {}
    /\ NamesOf(PrevSnapshot) # {}
    /\ merged # <<>>
    /\ Len(merged) < Len(LastSnapshot)

\* C6 (as claimed): with two snapshots that share no asset (or an empty one)
\* the run ends in an explicit error, never in the empty "no alerts" result.
C6_FailsFastWithoutOverlap ==
    outcome # "none" /\ EnoughSnapshots(df)
        /\ NamesOf(LastSnapshot) \cap NamesOf(PrevSnapshot) = {}
    => outcome = "error"

\* C7 (as claimed): the top gainers are the TopK joined assets of largest
\* defined pct_change and the top losers the TopK of smallest defined
\* pct_change (all of them when fewer than TopK are defined).
IsTopOfDefined(top, largest) ==
    LET defined == DefinedRows
        size == IF Len(defined) < TopK THEN Len(defined) ELSE TopK
    IN /\ Range(top) \subseteq Range(defined)
       /\ Len(top) = size
       /\ \A x \in Range(defined) \ Range(top), g \in Range(top) :
             IF largest THEN ~Gt(x.pct_change, g.pct_change)
             ELSE ~Lt(x.pct_change, g.pct_change)

C7_TopGainersAndLosers ==
    MoversRanOnPair => IsTopOfDefined(top_gainers, TRUE) /\ IsTopOfDefined(top_losers, FALSE)

\* The distinct timestamps of the last 10 minutes of the data.
WindowTimestamps == Range(TimestampCol(WindowDf(df)))

\* The greatest timestamp of the window strictly below the latest one.
SecondLatestTimestamp ==
    CHOOSE t \in WindowTimestamps \ {LatestTimestamp(df)} :
        \A u \in WindowTimestamps \ {LatestTimestamp(df)} : u <= t

\* C11 (as claimed): in whatever order the snapshot files were concatenated, a
\* run with two or more distinct timestamps in the window compares the
\* cross-section at the greatest timestamp with the one at the greatest
\* timestamp strictly below it, never two cross-sections of the same
\* timestamp; with fewer distinct timestamps the computation is skipped.
C11_LatestAgainstSecondLatest ==
    outcome # "none" =>
        IF Cardinality(WindowTimestamps) >= 2
        THEN /\ MoversRan
             /\ \A x \in Range(LastSnapshot) : x.timestamp = LatestTimestamp(df)
             /\ \A y \in Range(PrevSnapshot) : y.timestamp = SecondLatestTimestamp
             /\ \A i \in DOMAIN merged :
                   /\ \E x \in Range(df) :
                         /\ x.timestamp = LatestTimestamp(df)
                         /\ x.name = merged[i].name
                         /\ FromInt(x.price) = merged[i].price_new
                   /\ \E y \in Range(df) :
                         /\ y.timestamp = SecondLatestTimestamp
                         /\ y.name = merged[i].name
                         /\ FromInt(y.price) = merged[i].price_old
        ELSE outcome = "not_enough"

-----------------------------------------------------------------------------
(* Claims about the indicator functions, checked under SpecInd.             *)

CallWas(fn) == call # <<>> /\ call.fn = fn

\* The caller's series and the series the last call returned.
InputFrame == heap[1]
OutputFrame == heap[ret]

\* C4 (as claimed): wherever the smoothed average loss is 0 (index >= 1, counted
\* from 0), rsi is exactly 100, and no rsi value from index 1 on is infinite or NaN.
C4_ZeroAvgLossGivesHundred ==
    CallWas("compute_rsi") =>
        LET price == Column(InputFrame, "price")
            avg_loss == RsiAvgLoss(price, call.args[1])
            rsi == Column(OutputFrame, "rsi")
        IN \A i \in 2..Len(price) :
              /\ IsZero(avg_loss[i]) => Eq(rsi[i], Hundred)
              /\ IsFinite(rsi[i])

\* C5 (as claimed): for a series of length >= 2 the rsi at every index >= 1
\* (counted from 0) lies in the closed range [0, 100].
C5_RsiInRange ==
    CallWas("compute_rsi") =>
        LET rsi == Column(OutputFrame, "rsi")
        IN \A i \in 2..Len(rsi) :
              ~IsNaN(rsi[i]) /\ ~Lt(rsi[i], PosZero) /\ ~Gt(rsi[i], Hundred)

RECURSIVE SumOfPrices(_, _, _)
SumOfPrices(price, from, to) ==
    IF from > to THEN 0 ELSE Num(price[to]) + SumOfPrices(price, from, to - 1)

\* C8: the rolling-mean column of add_rolling and of tab 1 is, on the series
\* ordered by timestamp, the arithmetic mean of the w prices at i-w+1..i for
\* every row i that has w rows up to it, and NaN (not 0) for the rows before.
C8_RollingMeanTrailingWindow ==
    CallWas("add_rolling") \/ CallWas("tab1") =>
        LET w == call.args[1]
            out == OutputFrame
            ts == Column(out, "timestamp")
            price == Column(out, "price")
            mean == Column(out, IF call.fn = "tab1" THEN "rolling_mean"
                                ELSE RollingColumn(w))
        IN /\ \A i \in 1..(Len(ts) - 1) : ts[i] < ts[i + 1]
           /\ Len(out.rows) = Len(InputFrame.rows)
           /\ {<<r.timestamp, r.price>> : r \in Range(out.rows)}
                 = {<<r.timestamp, r.price>> : r \in Range(InputFrame.rows)}
           /\ \A i \in 1..Len(price) :
                 IF i >= w
                 THEN mean[i] = Rat(SumOfPrices(price, i - w + 1, i), w, 1)
                 ELSE IsNaN(mean[i])

\* C8 witness: add_rolling ran on a series given newest first, with a window
\* that leaves rows both before and after it fills, on prices that differ.
C8_Witness ==
    /\ CallWas("add_rolling")
    /\ call.args[1] > 1
    /\ call.args[1] < Len(InputFrame.rows)
    /\ InputFrame.rows[1].timestamp > InputFrame.rows[2].timestamp
    /\ \E i, j \in DOMAIN InputFrame.rows :
          InputFrame.rows[i].price # InputFrame.rows[j].price
    /\ \E i \in DOMAIN OutputFrame.rows :
          IsFinite(OutputFrame.rows[i][RollingColumn(call.args[1])])

\* ema[0] = value[0]; ema[i] = a * value[i] + (1 - a) * ema[i-1], a = 2 / (span + 1)
\* (rows counted from 1 here).
RECURSIVE Ema(_, _, _)
Ema(vals, span, i) ==
    IF i = 1 THEN vals[1]
    ELSE Add(Mul(Rat(2, span + 1, 1), vals[i]),
             Mul(Sub(One, Rat(2, span + 1, 1)), Ema(vals, span, i - 1)))

\* C9: macd, macd_signal and macd_hist have a value at every row, the first
\* included: macd = ema_fast - ema_slow, macd_signal = the EMA of macd with
\* span signal, macd_hist = macd - macd_signal, each EMA by the recurrence.
C9_MacdByEmaRecurrence ==
    CallWas("compute_macd") =>
        LET out == OutputFrame
            price == Column(out, "price")
            macd == Column(out, "macd")
            macd_signal == Column(out, "macd_signal")
            macd_hist == Column(out, "macd_hist")
        IN \A i \in 1..Len(price) :
              /\ IsFinite(macd[i]) /\ IsFinite(macd_signal[i]) /\ IsFinite(macd_hist[i])
              /\ Eq(macd[i], Sub(Ema(price, call.args[1], i), Ema(price, call.args[2], i)))
              /\ Eq(macd_signal[i], Ema(macd, call.args[3], i))
              /\ Eq(macd_hist[i], Sub(macd[i], macd_signal[i]))

\* C9 witness: compute_macd ran on a series of three or more rows whose macd
\* line and histogram are not zero throughout.
C9_Witness ==
    /\ CallWas("compute_macd")
    /\ Len(OutputFrame.rows) >= 3
    /\ IsFinite(OutputFrame.rows[1].macd)
    /\ \E i \in DOMAIN OutputFrame.rows :
          ~IsZero(OutputFrame.rows[i].macd) /\ ~IsZero(OutputFrame.rows[i].macd_hist)

\* C10: no call changes the caller's series (rows, order, columns), every call
\* returns another object than the one it was given, and a call repeated on
\* the same input returns the same output.
C10_InputUntouchedNewOutput ==
    [][/\ heap'[1] = heap[1]
       /\ ret' # 1
       /\ call'.again => heap'[ret'] = heap[ret]]_vars

\* C10 witness: the same function was called twice in a row on a series given
\* newest first, and returned a frame with a column the input does not have.
C10_Witness ==
    /\ call # <<>>
    /\ call.again
    /\ ret = 2
    /\ Len(InputFrame.rows) >= 2
    /\ InputFrame.rows[1].timestamp > InputFrame.rows[2].timestamp
    /\ InputFrame.columns = <<"timestamp", "price">>
    /\ OutputFrame.columns # InputFrame.columns

====
